---- MODULE Spec2Model ----
(***************************************************************************)
(* ModernWelcomeApp (welcome_app_modern.py): the configuration cache that  *)
(* is refreshed from GitHub at startup, the INI user settings, the option  *)
(* checkboxes and the generation, saving and running of the install        *)
(* script.                                                                 *)
(*                                                                         *)
(* A Python string is a sequence of pieces (its concatenation); "" is the  *)
(* empty sequence.  A file is the document it holds.                       *)
(***************************************************************************)
EXTENDS Integers, Sequences, FiniteSets, TLC

VARIABLES
    cacheFile,            \* config.yaml next to the program
    settingsFile,         \* user_settings.ini next to the program
    phase,                \* where the process is in __init__ / mainloop
    config,               \* self.config
    user_settings,        \* self.user_settings (the ConfigParser)
    options,              \* self.options: option id -> its IntVar (named by the checkbox that made it)
    boxes,                \* the IntVar of every checkbox, by position <<category, option>>
    hide_on_startup_var,  \* self.hide_on_startup_var
    script_content,       \* self.script_content
    script_textbox,       \* text shown in self.script_textbox
    lastOp                \* the step taken last and what it did outside the process

vars == <<cacheFile, settingsFile, phase, config, user_settings, options, boxes,
          hide_on_startup_var, script_content, script_textbox, lastOp>>

-----------------------------------------------------------------------------
(* Bounds of the generated catalogs of SynthSpec.                          *)
MaxCats == 2
MaxOpts == 3

-----------------------------------------------------------------------------
(* Configuration documents.  Category names are distinct in every document *)
(* (the tab view is keyed by them).                                        *)

Vim        == [id |-> "vim", label |-> "Vim",
               script |-> <<"\n", "apt install -y vim", "\n">>]
VSCode     == [id |-> "vscode", label |-> "VS Code",
               script |-> <<"apt install -y code", " ">>]
Zsh        == [id |-> "zsh", label |-> "Zsh",
               script |-> <<" ", "apt install -y zsh", "\n", "chsh -s /bin/zsh">>]
VimPlugins == [id |-> "vim", label |-> "Vim Plugins",
               script |-> <<"apt install -y vim-scripts">>]
GitNoScript == [id |-> "git", label |-> "Git"]

Mapping(cats) == [kind |-> "mapping", categories |-> cats]

\* A category with two options, one category.
EditorsDoc == Mapping(<< [name |-> "Editors", options |-> <<Vim, VSCode>>] >>)
\* Two categories; neither the names, the ids nor the labels are in sorted order.
ShellsDoc  == Mapping(<< [name |-> "Shells", options |-> <<Zsh>>],
                         [name |-> "Editors", options |-> <<VSCode, Vim>>] >>)
\* Two options in different categories share the id "vim".
SharedIdDoc == Mapping(<< [name |-> "Editors", options |-> <<Vim>>],
                          [name |-> "Extras", options |-> <<VimPlugins>>] >>)
\* A mapping whose option has no 'script' key.
NoScriptDoc == Mapping(<< [name |-> "Tools", options |-> <<GitNoScript>>] >>)

AbsentDoc     == [kind |-> "absent", categories |-> <<>>]      \* no file
UnparsableDoc == [kind |-> "unparsable", categories |-> <<>>]  \* not YAML
NullDoc       == [kind |-> "null", categories |-> <<>>]        \* an empty document
SequenceDoc   == [kind |-> "sequence", categories |-> <<>>]    \* YAML whose root is a list

WellFormedDocs == {EditorsDoc, ShellsDoc}
FileDocs   == WellFormedDocs \cup {SharedIdDoc, NoScriptDoc, UnparsableDoc, NullDoc,
                                   SequenceDoc}
Docs       == FileDocs \cup {AbsentDoc}

-----------------------------------------------------------------------------
(* Settings.  The ConfigParser holds at most the section General and in it *)
(* at most the key hide_on_startup.                                        *)

Parser(hasGeneral, hasKey, val) ==
    [hasGeneral |-> hasGeneral, hasKey |-> hasKey, val |-> val]
EmptyParser == Parser(FALSE, FALSE, "")
StoredValues == {"True", "False", "1", "0", "maybe"}
Parsers == {EmptyParser, Parser(TRUE, FALSE, "")}
             \cup {Parser(TRUE, TRUE, v) : v \in StoredValues}

Ini(p) == [kind |-> "ini", content |-> p]
AbsentSettings     == [kind |-> "absent", content |-> EmptyParser]
UnreadableSettings == [kind |-> "unreadable", content |-> EmptyParser]
MalformedSettings  == [kind |-> "malformed", content |-> EmptyParser]
SettingsFiles == {AbsentSettings, UnreadableSettings, MalformedSettings}
                   \cup {Ini(p) : p \in Parsers}

-----------------------------------------------------------------------------
(* Library functions the program calls.                                    *)

Whitespace == {" ", "\n", "\t"}

RECURSIVE LStrip(_)
LStrip(s) == IF s # <<>> /\ Head(s) \in Whitespace THEN LStrip(Tail(s)) ELSE s

RECURSIVE RStrip(_)
RStrip(s) == IF s # <<>> /\ s[Len(s)] \in Whitespace
             THEN RStrip(SubSeq(s, 1, Len(s) - 1)) ELSE s

\* str.strip()
Strip(s) == RStrip(LStrip(s))

RECURSIVE Join(_)
\* "\n".join(lines)
Join(lines) == IF lines = <<>> THEN <<>>
               ELSE IF Len(lines) = 1 THEN lines[1]
               ELSE lines[1] \o <<"\n">> \o Join(Tail(lines))

\* Mutant: the state of the checkbox is formatted as a Python bool.
StrOfBool(n) == IF n = 1 THEN "True" ELSE "False"

\* str(n) of the value of an IntVar of a checkbox (offvalue 0, onvalue 1)
Str(n) == IF n = 1 THEN "1" ELSE "0"

\* yaml.safe_load of a document that parses
NoneConfig == [type |-> "NoneType", categories |-> <<>>]
SafeLoad(doc) ==
    CASE doc.kind = "mapping"  -> [type |-> "dict", categories |-> doc.categories]
      [] doc.kind = "sequence" -> [type |-> "list", categories |-> <<>>]
      [] OTHER                 -> NoneConfig

\* bool(self.config): None is false, a list or dict with entries is true
Truthy(c) == c.type \in {"dict", "list"}

Lower(v) == CASE v = "True" -> "true" [] v = "False" -> "false" [] OTHER -> v
TrueStates  == {"1", "yes", "true", "on"}
FalseStates == {"0", "no", "false", "off"}

\* ConfigParser.getboolean('General', 'hide_on_startup', fallback=False): the
\* fallback replaces NoSectionError and NoOptionError only; a value outside
\* BOOLEAN_STATES raises ValueError.
GetBoolean(p) ==
    IF ~p.hasGeneral \/ ~p.hasKey THEN [raised |-> FALSE, value |-> FALSE]
    ELSE IF Lower(p.val) \in TrueStates THEN [raised |-> FALSE, value |-> TRUE]
    ELSE IF Lower(p.val) \in FalseStates THEN [raised |-> FALSE, value |-> FALSE]
    ELSE [raised |-> TRUE, value |-> FALSE]

\* ConfigParser.read(path): a file that cannot be opened is skipped, a file that
\* does not parse raises configparser.Error.
ReadRaises(file) == file.kind = "malformed"
ReadSettings(file) == IF file.kind = "ini" THEN file.content ELSE EmptyParser

-----------------------------------------------------------------------------
(* Script generation.                                                      *)

Hashes == "######################################################################"
CategoryPrefix == "\n# --- "
CategorySuffix == " ---"
InstallPrefix  == "\necho 'Installing: "
InstallSuffix  == "...'"

Preamble == <<
    <<"#!/usr/bin/env bash">>,
    <<"# Generated by Stygian OS Developer Environment Setup App">>,
    <<"# Handles conflicts with existing installations">>,
    <<"# Avoids snap packages, uses apt repositories">>,
    <<"set -e">>,
    <<>>,
    <<"# Sudo check">>,
    <<"if [ \"$(id -u)\" != \"0\" ]; then">>,
    <<"  echo \"Please run as root: sudo -E $0\"">>,
    <<"  exit 1">>,
    <<"fi">>,
    <<>>,
    <<"# Capture the actual user (not root)">>,
    <<"SUDO_USER=${SUDO_USER:-$USER}">>,
    <<"export DEBIAN_FRONTEND=noninteractive">>,
    <<>>,
    <<"echo \"Starting system update...\"">>,
    <<"apt update">>,
    <<"apt install -y apt-transport-https ca-certificates gnupg lsb-release curl wget software-properties-common python3 python3-venv unzip zip">>,
    <<>>,
    <<Hashes>> >>

Epilogue == <<
    <<"\n", Hashes>>,
    <<"# Cleanup">>,
    <<"echo 'Running cleanup...'">>,
    <<"apt autoremove -y">>,
    <<"apt clean">>,
    <<>>,
    <<"echo \"Installation complete! Please restart your terminal or log out and back in.\"">> >>

RECURSIVE OptionLinesReversed(_, _)
\* Mutant: the blocks of a category come out in the reverse of the declared order.
OptionLinesReversed(opts, selected_ids) ==
    IF opts = <<>> THEN <<>>
    ELSE LET option == Head(opts)
             block  == IF option.id \in selected_ids
                       THEN << <<InstallPrefix, option.label, InstallSuffix>>,
                               Strip(option.script) >>
                       ELSE <<>>
         IN  OptionLinesReversed(Tail(opts), selected_ids) \o block

RECURSIVE OptionLines(_, _)
\* the inner loop of _generate_script over one category's options
OptionLines(opts, selected_ids) ==
    IF opts = <<>> THEN <<>>
    ELSE LET option == Head(opts)
             block  == IF option.id \in selected_ids
                       THEN << <<InstallPrefix, option.label, InstallSuffix>>,
                               Strip(option.script) >>
                       ELSE <<>>
         IN  block \o OptionLines(Tail(opts), selected_ids)

RECURSIVE CategoryLines(_, _)
\* the outer loop of _generate_script over the categories
CategoryLines(cats, selected_ids) ==
    IF cats = <<>> THEN <<>>
    ELSE LET category == Head(cats)
         IN  << <<CategoryPrefix, category.name, CategorySuffix>> >>
               \o OptionLines(category.options, selected_ids)
               \o CategoryLines(Tail(cats), selected_ids)

\* option['script'] of a selected option raises KeyError
ScriptKeyError(cats, selected_ids) ==
    \E c \in 1..Len(cats) : \E o \in 1..Len(cats[c].options) :
        /\ cats[c].options[o].id \in selected_ids
        /\ "script" \notin DOMAIN cats[c].options[o]

\* the text _generate_script assigns to self.script_content
ScriptText(cats, selected_ids) ==
    Join(Preamble \o CategoryLines(cats, selected_ids) \o Epilogue)

-----------------------------------------------------------------------------
(* The checkboxes.                                                         *)

RECURSIVE CategoryPositions(_, _, _)
CategoryPositions(cats, c, o) ==
    IF c > Len(cats) THEN <<>>
    ELSE IF o > Len(cats[c].options) THEN CategoryPositions(cats, c + 1, 1)
    ELSE << <<c, o>> >> \o CategoryPositions(cats, c, o + 1)

\* the checkboxes in the order _create_widgets creates them
Positions(cats) == CategoryPositions(cats, 1, 1)

OptionAt(cats, pos) == cats[pos[1]].options[pos[2]]

RECURSIVE Register(_, _, _)
\* self.options[opt_id] = ctk.IntVar(value=0), for every option in turn: a later
\* option with the same id replaces the earlier entry
Register(cats, ps, dict) ==
    IF ps = <<>> THEN dict
    ELSE LET opt_id == OptionAt(cats, Head(ps)).id
         IN  Register(cats, Tail(ps),
                      [i \in DOMAIN dict \cup {opt_id} |->
                          IF i = opt_id THEN Head(ps) ELSE dict[i]])

NoOptions == [i \in {} |-> <<0, 0>>]
NoBoxes   == [p \in {} |-> 0]

Range(seq) == {seq[i] : i \in DOMAIN seq}

\* selected_ids of _generate_script
SelectedIds == {opt_id \in DOMAIN options : boxes[options[opt_id]] = 1}

-----------------------------------------------------------------------------
(* What a step did.                                                        *)

\* op and outcome: the step and how it ended; wrote: the script text written
\* to a file; launched: a terminal was started on it.  During __init__, up to
\* the check of self.config, fetch is how _update_config_from_github ended,
\* before the cache file as it was when it began, fetched the downloaded
\* document.
Did(op, outcome) ==
    [op |-> op, outcome |-> outcome, fetch |-> "none", before |-> AbsentDoc,
     fetched |-> AbsentDoc, wrote |-> <<>>, launched |-> FALSE]

Then(op, outcome) == [lastOp EXCEPT !.op = op, !.outcome = outcome]

Init ==
    /\ cacheFile \in Docs
    /\ settingsFile \in SettingsFiles
    /\ phase = "start"
    /\ config = NoneConfig
    /\ user_settings = EmptyParser
    /\ options = NoOptions
    /\ boxes = NoBoxes
    /\ hide_on_startup_var = 0
    /\ script_content = <<>>
    /\ script_textbox = <<>>
    /\ lastOp = Did("main", "started")

-----------------------------------------------------------------------------
(* Startup: ModernWelcomeApp.__init__.                                     *)

\* Mutant: the cache file is opened for writing before the download.
CacheTruncatedBeforeDownload(old) == NullDoc

\* Mutant: the downloaded bytes are written only when they parse.
WriteCacheIfParses(old, content) ==
    IF content.kind = "unparsable" THEN old ELSE content

\* The cache file when urlopen or response.read() raises: the file is opened
\* for writing only after the download.
CacheAfterNetworkError(old) == old

\* with open(local_config, 'wb') as f: f.write(content)
WriteCache(old, content) == content

\* What a failed write of the cache leaves: the old file (open failed), an
\* empty file (truncated) or a part of the new bytes.
FailedCacheWrite(old) == {old, NullDoc, UnparsableDoc}

Fetched(outcome, content) ==
    [Did("update_config", outcome) EXCEPT
        !.fetch = outcome, !.before = cacheFile, !.fetched = content]

UpdateConfigFromGithub ==
    /\ phase = "start"
    /\ \/ \* urlopen or response.read() raises: URLError, timeout
          /\ cacheFile' = CacheAfterNetworkError(cacheFile)
          /\ lastOp' = Fetched("network_error", AbsentDoc)
       \/ \* the download and the write succeed
          \E content \in FileDocs :
             /\ cacheFile' = WriteCache(cacheFile, content)
             /\ lastOp' = Fetched("updated", content)
       \/ \* the download succeeds, open() or f.write() raises
          \E content \in FileDocs : \E left \in FailedCacheWrite(cacheFile) :
             /\ cacheFile' = left
             /\ lastOp' = Fetched("write_error", content)
    /\ phase' = "fetched"
    /\ UNCHANGED <<settingsFile, config, user_settings, options, boxes,
                   hide_on_startup_var, script_content, script_textbox>>

\* A file that cannot be read or decoded takes the path of the unparsable one
\* through "except Exception": an error box that does not exit, None returned.
LoadConfig ==
    /\ phase = "fetched"
    /\ IF cacheFile.kind = "absent"
       THEN \* FileNotFoundError: _show_error("File Not Found") exits
            /\ phase' = "fatal"
            /\ config' = config
            /\ lastOp' = Then("load_config", "File Not Found")
       ELSE IF cacheFile.kind = "unparsable"
       THEN \* yaml.YAMLError: _show_error("YAML Error") returns, None is returned
            /\ phase' = "config_loaded"
            /\ config' = NoneConfig
            /\ lastOp' = Then("load_config", "YAML Error")
       ELSE /\ phase' = "config_loaded"
            /\ config' = SafeLoad(cacheFile)
            /\ lastOp' = Then("load_config", "loaded")
    /\ UNCHANGED <<cacheFile, settingsFile, user_settings, options, boxes,
                   hide_on_startup_var, script_content, script_textbox>>

LoadUserSettings ==
    /\ phase = "config_loaded"
    /\ IF ReadRaises(settingsFile)
       THEN \* configparser.Error leaves __init__ and main
            /\ phase' = "crashed"
            /\ user_settings' = user_settings
            /\ lastOp' = Then("load_user_settings", "configparser.Error")
       ELSE /\ phase' = "settings_loaded"
            /\ user_settings' = ReadSettings(settingsFile)
            /\ lastOp' = Then("load_user_settings", "loaded")
    /\ UNCHANGED <<cacheFile, settingsFile, config, options, boxes,
                   hide_on_startup_var, script_content, script_textbox>>

\* if not self.config: _show_error("Configuration Error", ...)
CheckConfig ==
    /\ phase = "settings_loaded"
    /\ IF ~Truthy(config)
       THEN /\ phase' = "fatal"
            /\ lastOp' = Then("check_config", "Configuration Error")
       ELSE /\ phase' = "config_checked"
            /\ lastOp' = Then("check_config", "ok")
    /\ UNCHANGED <<cacheFile, settingsFile, config, user_settings, options, boxes,
                   hide_on_startup_var, script_content, script_textbox>>

\* Mutant: the window is withdrawn but __init__ does not return, and goes on
\* to build the widgets.
CheckHideWithoutReturn ==
    /\ phase = "config_checked"
    /\ LET hide == GetBoolean(user_settings)
       IN  IF hide.raised
           THEN /\ phase' = "crashed"
                /\ lastOp' = Did("check_hide", "ValueError")
           ELSE /\ phase' = "showing"
                /\ lastOp' = Did("check_hide", "shown")
    /\ UNCHANGED <<cacheFile, settingsFile, config, user_settings, options, boxes,
                   hide_on_startup_var, script_content, script_textbox>>

\* if self.user_settings.getboolean(...): withdraw, quit; return
CheckHideOnStartup ==
    /\ phase = "config_checked"
    /\ LET hide == GetBoolean(user_settings)
       IN  IF hide.raised
           THEN /\ phase' = "crashed"
                /\ lastOp' = Did("check_hide", "ValueError")
           ELSE IF hide.value
           THEN /\ phase' = "hidden"
                /\ lastOp' = Did("check_hide", "hidden")
           ELSE /\ phase' = "showing"
                /\ lastOp' = Did("check_hide", "shown")
    /\ UNCHANGED <<cacheFile, settingsFile, config, user_settings, options, boxes,
                   hide_on_startup_var, script_content, script_textbox>>

CreateWidgets ==
    /\ phase = "showing"
    /\ IF config.type # "dict"
       THEN \* self.config.get raises AttributeError
            /\ phase' = "crashed"
            /\ lastOp' = Did("create_widgets", "AttributeError")
            /\ UNCHANGED <<options, boxes, hide_on_startup_var>>
       ELSE LET ps == Positions(config.categories)
            IN  /\ options' = Register(config.categories, ps, NoOptions)
                /\ boxes' = [p \in Range(ps) |-> 0]
                /\ hide_on_startup_var' =
                      (IF GetBoolean(user_settings).value THEN 1 ELSE 0)
                /\ phase' = "running"
                /\ lastOp' = Did("create_widgets", "shown")
    /\ UNCHANGED <<cacheFile, settingsFile, config, user_settings,
                   script_content, script_textbox>>

-----------------------------------------------------------------------------
(* The handlers of the window.                                             *)

\* a click on the checkbox of the option at pos
ToggleOption(pos) ==
    /\ phase = "running"
    /\ pos \in DOMAIN boxes
    /\ boxes' = [boxes EXCEPT ![pos] = 1 - boxes[pos]]
    /\ lastOp' = Did("toggle_option", "toggled")
    /\ UNCHANGED <<cacheFile, settingsFile, phase, config, user_settings, options,
                   hide_on_startup_var, script_content, script_textbox>>

\* a click on "Don't show this app on startup": _on_hide_checkbox_click
OnHideCheckboxClick ==
    /\ phase = "running"
    /\ hide_on_startup_var' = 1 - hide_on_startup_var
    /\ lastOp' = Did("hide_checkbox",
                     IF hide_on_startup_var' = 1 THEN "Preference Set"
                                                 ELSE "Preference Cleared")
    /\ UNCHANGED <<cacheFile, settingsFile, phase, config, user_settings, options,
                   boxes, script_content, script_textbox>>

\* for var in self.options.values(): var.set(0)
Cleared == [p \in DOMAIN boxes |->
              IF \E i \in DOMAIN options : options[i] = p THEN 0 ELSE boxes[p]]

ClearAll ==
    /\ phase = "running"
    /\ boxes' = Cleared
    /\ lastOp' = Did("clear_all", "Cleared")
    /\ UNCHANGED <<cacheFile, settingsFile, phase, config, user_settings, options,
                   hide_on_startup_var, script_content, script_textbox>>

\* What a call of _generate_script leaves in self.script_content and in the
\* textbox, and how it ends.
Generate ==
    IF SelectedIds = {}
    THEN [outcome |-> "No Selection", content |-> script_content,
          textbox |-> script_textbox]
    ELSE IF ScriptKeyError(config.categories, SelectedIds)
    THEN [outcome |-> "KeyError", content |-> script_content,
          textbox |-> script_textbox]
    ELSE LET text == ScriptText(config.categories, SelectedIds)
         IN  [outcome |-> "Generated", content |-> text, textbox |-> text]

GenerateScript ==
    /\ phase = "running"
    /\ script_content' = Generate.content
    /\ script_textbox' = Generate.textbox
    /\ lastOp' = Did("generate_script", Generate.outcome)
    /\ UNCHANGED <<cacheFile, settingsFile, phase, config, user_settings, options,
                   boxes, hide_on_startup_var>>

\* if not self.script_content: self._generate_script()
Ensured ==
    IF script_content = <<>> THEN Generate
    ELSE [outcome |-> "Kept", content |-> script_content, textbox |-> script_textbox]

SaveScript ==
    /\ phase = "running"
    /\ script_content' = Ensured.content
    /\ script_textbox' = Ensured.textbox
    /\ IF Ensured.outcome = "KeyError"
       THEN lastOp' = Did("save_script", "KeyError")
       ELSE IF Ensured.content = <<>>
       THEN lastOp' = Did("save_script", "No Selection")
       ELSE \/ \* the file dialog is cancelled
               lastOp' = Did("save_script", "cancelled")
            \/ \* a file is chosen and written
               lastOp' = [Did("save_script", "Success") EXCEPT !.wrote = Ensured.content]
            \/ \* a file is chosen, open() or write() raises
               lastOp' = Did("save_script", "Save Error")
    /\ UNCHANGED <<cacheFile, settingsFile, phase, config, user_settings, options,
                   boxes, hide_on_startup_var>>

RunScriptInTerminal ==
    /\ phase = "running"
    /\ script_content' = Ensured.content
    /\ script_textbox' = Ensured.textbox
    /\ IF Ensured.outcome = "KeyError"
       THEN lastOp' = Did("run_script", "KeyError")
       ELSE IF Ensured.content = <<>>
       THEN lastOp' = Did("run_script", "No Selection")
       ELSE \/ \* the script is written and a terminal emulator starts it
               lastOp' = [Did("run_script", "Running") EXCEPT
                            !.wrote = Ensured.content, !.launched = TRUE]
            \/ \* the script is written, no terminal emulator is installed
               lastOp' = [Did("run_script", "Error") EXCEPT !.wrote = Ensured.content]
            \/ \* writing /tmp/install_dev_env.sh raises
               lastOp' = Did("run_script", "Execution Error")
    /\ UNCHANGED <<cacheFile, settingsFile, phase, config, user_settings, options,
                   boxes, hide_on_startup_var>>

\* What a failed write of the settings leaves: the old file (open failed), an
\* empty file (truncated) or the section header alone.
FailedSettingsWrite(old) == {old, Ini(EmptyParser), Ini(Parser(TRUE, FALSE, ""))}

\* self.user_settings['General']['hide_on_startup'] = str(hide_state)
SetHideOnStartup(p, hide_state) == Parser(TRUE, TRUE, Str(hide_state))

\* WM_DELETE_WINDOW: _on_closing and in it _save_user_settings
OnClosing ==
    /\ phase = "running"
    /\ user_settings' = SetHideOnStartup(user_settings, hide_on_startup_var)
    /\ \/ /\ settingsFile' = Ini(user_settings')
          /\ lastOp' = Did("on_closing", "saved")
       \/ \E left \in FailedSettingsWrite(settingsFile) :
             /\ settingsFile' = left
             /\ lastOp' = Did("on_closing", "Warning")
    /\ phase' = "closed"
    /\ UNCHANGED <<cacheFile, config, options, boxes, hide_on_startup_var,
                   script_content, script_textbox>>

\* the program is started again: main() builds a new ModernWelcomeApp
Main ==
    /\ phase \in {"fatal", "crashed", "hidden", "closed"}
    /\ phase' = "start"
    /\ config' = NoneConfig
    /\ user_settings' = EmptyParser
    /\ options' = NoOptions
    /\ boxes' = NoBoxes
    /\ hide_on_startup_var' = 0
    /\ script_content' = <<>>
    /\ script_textbox' = <<>>
    /\ lastOp' = Did("main", "started")
    /\ UNCHANGED <<cacheFile, settingsFile>>

Next ==
    \/ UpdateConfigFromGithub
    \/ LoadConfig
    \/ LoadUserSettings
    \/ CheckConfig
    \/ CheckHideOnStartup
    \/ CreateWidgets
    \/ \E pos \in DOMAIN boxes : ToggleOption(pos)
    \/ OnHideCheckboxClick
    \/ ClearAll
    \/ GenerateScript
    \/ SaveScript
    \/ RunScriptInTerminal
    \/ OnClosing
    \/ Main

Spec == Init /\ [][Next]_vars

-----------------------------------------------------------------------------
(* Script generation over every small catalog: the window is open on a     *)
(* catalog of at most MaxCats categories and MaxOpts options, with any of  *)
(* its checkboxes ticked.                                                  *)

GenPool  == {Zsh, Vim, VSCode}
GenNames == <<"Shells", "Editors", "Extras", "Misc">>

OptSeqs(n) == UNION {[1..k -> GenPool] : k \in 0..n}

RECURSIVE OptionLists(_, _)
\* the lists of k option lists with at most n options in all
OptionLists(k, n) ==
    IF k = 0 THEN {<<>>}
    ELSE UNION { { <<opts>> \o rest : rest \in OptionLists(k - 1, n - Len(opts)) }
                 : opts \in OptSeqs(n) }

GenCatalogs ==
    UNION { { [c \in 1..k |-> [name |-> GenNames[c], options |-> lists[c]]]
              : lists \in OptionLists(k, MaxOpts) }
            : k \in 0..MaxCats }

SynthInit ==
    \E cats \in GenCatalogs :
       /\ cacheFile = Mapping(cats)
       /\ settingsFile = AbsentSettings
       /\ phase = "running"
       /\ config = SafeLoad(Mapping(cats))
       /\ user_settings = EmptyParser
       /\ options = Register(cats, Positions(cats), NoOptions)
       /\ boxes \in [Range(Positions(cats)) -> {0, 1}]
       /\ hide_on_startup_var = 0
       /\ script_content = <<>>
       /\ script_textbox = <<>>
       /\ lastOp = Did("toggle_option", "toggled")

SynthNext == GenerateScript

SynthSpec == SynthInit /\ [][SynthNext]_vars

-----------------------------------------------------------------------------
(* Properties.                                                             *)

\* __init__ is between the fetch and the end of the check of self.config
AfterFetch == lastOp.op \in {"update_config", "load_config", "load_user_settings",
                             "check_config"}
ConfigLoaded == lastOp.op \in {"load_config", "load_user_settings", "check_config"}

IsCatalogOf(c, doc) == c.type = "dict" /\ c.categories = doc.categories

\* C1: when the fetch at startup fails with a network error and the cache file
\* held a catalog, the cache file is left as it was, loading the configuration
\* does not end the process (no "File Not Found", no "Configuration Error") and
\* self.config is the catalog the cache file held before the fetch.
C1_FetchFailureFallsBackToCache ==
    (AfterFetch /\ lastOp.fetch = "network_error" /\ lastOp.before.kind = "mapping")
    => /\ cacheFile = lastOp.before
       /\ phase # "fatal"
       /\ ConfigLoaded => IsCatalogOf(config, lastOp.before)
       /\ lastOp.op = "check_config" => phase = "config_checked"

C1_Witness ==
    /\ lastOp.op = "check_config"
    /\ lastOp.fetch = "network_error"
    /\ lastOp.before = ShellsDoc
    /\ phase = "config_checked"
    /\ IsCatalogOf(config, ShellsDoc)

\* C7: when the fetch succeeds the cache file holds the fetched document before
\* it is parsed, whether or not it parses; when the fetched document does not
\* parse, self.config is None whatever the cache held before, and the check of
\* self.config ends the process with "Configuration Error".
C7_FetchOverwritesBeforeParsing ==
    (AfterFetch /\ lastOp.fetch = "updated")
    => /\ cacheFile = lastOp.fetched
       /\ lastOp.fetched.kind = "unparsable" =>
            /\ phase \notin {"config_checked", "showing", "running", "hidden"}
            /\ ConfigLoaded => config = NoneConfig
            /\ lastOp.op = "check_config" =>
                 phase = "fatal" /\ lastOp.outcome = "Configuration Error"

C7_Witness ==
    /\ lastOp.op = "check_config"
    /\ lastOp.fetch = "updated"
    /\ lastOp.before = EditorsDoc
    /\ lastOp.fetched = UnparsableDoc
    /\ cacheFile = UnparsableDoc
    /\ phase = "fatal"


Generated == lastOp.op = "generate_script" /\ lastOp.outcome = "Generated"
SavedOrRun == lastOp.op \in {"save_script", "run_script"}

\* C2: while no option id is selected, generating ends with "No Selection", and
\* a Save or a Run writes no file and starts no terminal, whatever came before.
C2_EmptySelectionWritesNothing ==
    (phase = "running" /\ SelectedIds = {})
    => /\ lastOp.op = "generate_script" => lastOp.outcome = "No Selection"
       /\ SavedOrRun => lastOp.wrote = <<>> /\ ~lastOp.launched

PreambleText == Join(Preamble)
EpilogueText == Join(Epilogue)

RECURSIVE Marks(_, _)
\* the category headers and progress lines of a script text, in order of
\* appearance, each with the name or label it carries
Marks(s, i) ==
    IF i >= Len(s) THEN <<>>
    ELSE IF s[i] = CategoryPrefix THEN << <<"category", s[i + 1]>> >> \o Marks(s, i + 2)
    ELSE IF s[i] = InstallPrefix THEN << <<"option", s[i + 1]>> >> \o Marks(s, i + 2)
    ELSE Marks(s, i + 1)

IsCategoryMark(m) == m[1] = "category"

\* where the c-th category header is among the marks (one past the end for the
\* header after the last)
HeaderAt(ms, c) ==
    IF \E i \in 1..Len(ms) :
          IsCategoryMark(ms[i])
          /\ Cardinality({j \in 1..i : IsCategoryMark(ms[j])}) = c
    THEN CHOOSE i \in 1..Len(ms) :
          IsCategoryMark(ms[i])
          /\ Cardinality({j \in 1..i : IsCategoryMark(ms[j])}) = c
    ELSE Len(ms) + 1

\* the labels of the selected options of a category, in declared order
SelectedLabels(category) ==
    LET sel == SelectSeq(category.options, LAMBDA o : o.id \in SelectedIds)
    IN  [k \in 1..Len(sel) |-> <<"option", sel[k].label>>]

\* C3: a generated script begins with the fixed preamble and ends with the
\* fixed epilogue; between them the category headers are the catalog's
\* categories in the catalog's order, and under each header the progress lines
\* are those of the category's selected options in the category's declared
\* order.
C3_ScriptFollowsCatalogOrder ==
    Generated =>
    LET s    == script_content
        ms   == Marks(s, 1)
        cats == config.categories
    IN  /\ Len(s) >= Len(PreambleText) + Len(EpilogueText)
        /\ SubSeq(s, 1, Len(PreambleText)) = PreambleText
        /\ SubSeq(s, Len(s) - Len(EpilogueText) + 1, Len(s)) = EpilogueText
        /\ SelectSeq(ms, IsCategoryMark)
             = [c \in 1..Len(cats) |-> <<"category", cats[c].name>>]
        /\ cats # <<>> => HeaderAt(ms, 1) = 1
        /\ \A c \in 1..Len(cats) :
              SubSeq(ms, HeaderAt(ms, c) + 1, HeaderAt(ms, c + 1) - 1)
                = SelectedLabels(cats[c])

\* two options of one category are selected, declared with the label "Zsh"
\* before the label "Vim", and another category has options and none selected
C3_Witness ==
    /\ Generated
    /\ Len(config.categories) = 2
    /\ \E c \in 1..2 :
          /\ SelectedLabels(config.categories[c])
               = << <<"option", "Zsh">>, <<"option", "Vim">> >>
          /\ SelectedLabels(config.categories[3 - c]) = <<>>
          /\ config.categories[3 - c].options # <<>>

\* where the block of an option (progress line, then its trimmed snippet)
\* begins in a script text
BlockStarts(s, option) ==
    LET snippet == Strip(option.script)
    IN  {i \in 1..Len(s) :
            /\ i + 3 + Len(snippet) <= Len(s)
            /\ s[i] = InstallPrefix
            /\ s[i + 1] = option.label
            /\ s[i + 2] = InstallSuffix
            /\ s[i + 3] = "\n"
            /\ SubSeq(s, i + 4, i + 3 + Len(snippet)) = snippet}

\* C4: a generated script holds exactly one block for every option whose
\* checkbox is ticked and none for an option whose checkbox is not.
C4_OneBlockPerTickedCheckbox ==
    Generated =>
    \A pos \in DOMAIN boxes :
       Cardinality(BlockStarts(script_content, OptionAt(config.categories, pos)))
         = boxes[pos]

\* a document of the shape the catalog is to have
ExpectedShape(doc) ==
    /\ doc.kind = "mapping"
    /\ \A c \in 1..Len(doc.categories) :
          \A o \in 1..Len(doc.categories[c].options) :
             {"id", "label", "script"} \subseteq DOMAIN doc.categories[c].options[o]

\* C5: when the cache file is absent or not of the catalog's shape after the
\* fetch, the check of the configuration ends the process and no window is
\* built.
C5_UnusableCacheIsFatal ==
    ~ExpectedShape(cacheFile)
    => /\ lastOp.op = "check_config" => phase = "fatal"
       /\ phase \notin {"showing", "running", "hidden"}

UniqueIds(cats) ==
    \A p, q \in Range(Positions(cats)) :
       p # q => OptionAt(cats, p).id # OptionAt(cats, q).id

\* C6: a document in which two options share an id is rejected at load, so the
\* catalog of an open window has unique option ids.
C6_SharedIdIsRejected ==
    /\ (lastOp.op = "check_config" /\ cacheFile.kind = "mapping"
          /\ ~UniqueIds(cacheFile.categories)) => phase = "fatal"
    /\ phase = "running" => UniqueIds(config.categories)

\* C8: loading the user settings never fails; an absent, unreadable or
\* malformed file gives empty settings and startup goes on.
C8_SettingsLoadNeverFails ==
    lastOp.op = "load_user_settings"
    => /\ phase = "settings_loaded"
       /\ settingsFile.kind # "ini" => user_settings = EmptyParser

NotABoolean(v) == v \notin {"1", "0", "True", "False", "true", "false",
                            "yes", "no", "on", "off"}

\* C9: reading hide_on_startup gives false and raises nothing when the key is
\* absent or its value is no boolean.
C9_HideDefaultsToFalse ==
    (lastOp.op = "check_hide"
       /\ (~user_settings.hasGeneral \/ ~user_settings.hasKey
             \/ NotABoolean(user_settings.val)))
    => phase = "showing" /\ lastOp.outcome = "shown"

\* C10 as first stated: on closing, the value stored under
\* General/hide_on_startup is "True" or "False".
C10_StoredAsTrueOrFalse ==
    lastOp.op = "on_closing"
    => user_settings.hasKey /\ user_settings.val \in {"True", "False"}

\* C10: on closing, the value stored under General/hide_on_startup is the
\* decimal form of the state of the checkbox, "1" when ticked and "0" when not,
\* which getboolean reads back as that state; a save that succeeds leaves the
\* settings file holding it.
C10_StoredAsOneOrZero ==
    lastOp.op = "on_closing"
    => /\ user_settings.hasGeneral /\ user_settings.hasKey
       /\ user_settings.val \in {"1", "0"}
       /\ user_settings.val = "1" <=> hide_on_startup_var = 1
       /\ ~GetBoolean(user_settings).raised
       /\ GetBoolean(user_settings).value <=> hide_on_startup_var = 1
       /\ lastOp.outcome = "saved" => settingsFile = Ini(user_settings)

C10_Witness ==
    /\ lastOp.op = "on_closing"
    /\ lastOp.outcome = "saved"
    /\ hide_on_startup_var = 1
    /\ settingsFile = Ini(Parser(TRUE, TRUE, "1"))


\* C11: the script text that a Save or a Run writes is the script of the
\* catalog and of the selection as it is when the file is written.
C11_SavedScriptIsOfCurrentSelection ==
    (phase = "running" /\ SavedOrRun /\ lastOp.wrote # <<>>)
    => lastOp.wrote = ScriptText(config.categories, SelectedIds)


\* the settings file holds hide_on_startup with a value that reads as true
HoldsHideTrue(file) ==
    /\ file.kind = "ini"
    /\ file.content.hasGeneral /\ file.content.hasKey
    /\ file.content.val \in {"1", "True", "true", "yes", "on"}

\* C12: once the settings file holds hide_on_startup as true, no step of the
\* program, in this run or any later one, changes the settings file or builds
\* the window, and a start that gets as far as reading the flag (its
\* configuration loads) quits there.
C12_HideOnStartupIsAbsorbing ==
    [][HoldsHideTrue(settingsFile)
        => /\ settingsFile' = settingsFile
           /\ phase' \notin {"showing", "running", "closed"}
           /\ lastOp'.op = "check_hide" => phase' = "hidden"
           /\ lastOp'.op # "on_closing"]_vars

\* the flag was stored by the program on closing ("1"), and a later start has
\* read it and quit before building the window
C12_Witness ==
    /\ settingsFile = Ini(Parser(TRUE, TRUE, "1"))
    /\ cacheFile \in WellFormedDocs
    /\ lastOp.op = "check_hide"
    /\ phase = "hidden"
    /\ boxes = NoBoxes

====
